---- MODULE Spec2Model ----
(***************************************************************************)
(* Model of rx_app.py: the drug-label parser                               *)
(* parse_drug_name_comprehensive and the result aggregation of             *)
(* search_rxnorm_api.                                                      *)
(*                                                                         *)
(* A Python str is a sequence of one-character strings, so that lower(),   *)
(* split(), replace(), the regular expressions and the ordering of str     *)
(* are computed character by character as Python computes them.  Python's  *)
(* '' is the empty sequence <<>>; Python's None is the value None below.   *)
(***************************************************************************)
EXTENDS Integers, Sequences, FiniteSets

VARIABLES
    pc,                 \* position of the call being modelled
    drug_name,          \* argument of parse_drug_name_comprehensive
    drug_name_no_brand, \* its local variable: the working text
    result,             \* the dict it returns
    concepts,           \* the concepts of the API response read so far
    parsed_info,        \* search_rxnorm_api's local: the parse of primary_name
    synonym_info,       \* its local: the parse of the synonym, or {}
    drugs_data,         \* search_rxnorm_api's list of drug_info dicts
    df                  \* the DataFrame it returns, as a sequence of rows

vars == <<pc, drug_name, drug_name_no_brand, result, concepts, parsed_info,
          synonym_info, drugs_data, df>>

----------------------------------------------------------------------------
(* Characters and str methods                                              *)

UpperChars == <<"A", "B", "C", "D", "E", "F", "G", "H", "I", "J", "K", "L", "M", "N", "O", "P", "Q", "R", "S", "T", "U", "V", "W", "X", "Y", "Z">>
LowerChars == <<"a", "b", "c", "d", "e", "f", "g", "h", "i", "j", "k", "l", "m", "n", "o", "p", "q", "r", "s", "t", "u", "v", "w", "x", "y", "z">>
DigitChars == <<"0", "1", "2", "3", "4", "5", "6", "7", "8", "9">>
Digits == {DigitChars[i] : i \in 1..Len(DigitChars)}

\* The characters of the model in code point order (ASCII).
CodeOrder == <<" ", "%", "(", ")", ".", "/", "0", "1", "2", "3", "4", "5", "6", "7", "8", "9", "A", "B", "C", "D", "E", "F", "G", "H", "I", "J", "K", "L", "M", "N", "O", "P", "Q", "R", "S", "T", "U", "V", "W", "X", "Y", "Z", "[", "]", "a", "b", "c", "d", "e", "f", "g", "h", "i", "j", "k", "l", "m", "n", "o", "p", "q", "r", "s", "t", "u", "v", "w", "x", "y", "z">>

CharSet == {CodeOrder[i] : i \in 1..Len(CodeOrder)}

Ord == [c \in CharSet |-> CHOOSE i \in 1..Len(CodeOrder) : CodeOrder[i] = c]

LowerOf == [c \in CharSet |->
              IF \E i \in 1..26 : UpperChars[i] = c
              THEN LowerChars[CHOOSE i \in 1..26 : UpperChars[i] = c]
              ELSE c]

UpperOf == [c \in CharSet |->
              IF \E i \in 1..26 : LowerChars[i] = c
              THEN UpperChars[CHOOSE i \in 1..26 : LowerChars[i] = c]
              ELSE c]

None == <<"None">>

\* a local variable of dict type that no statement has assigned yet
Unbound == [unbound |-> TRUE]

IsSpace(c) == c = " "
IsDigit(c) == c \in Digits

\* str.lower(), str.upper()
Lower(s) == [i \in 1..Len(s) |-> LowerOf[s[i]]]
Upper(s) == [i \in 1..Len(s) |-> UpperOf[s[i]]]

\* s[i:i+len(sub)] == sub
StartsAt(s, i, sub) ==
    /\ i + Len(sub) - 1 <= Len(s)
    /\ \A k \in 1..Len(sub) : s[i + k - 1] = sub[k]

\* the same, ignoring case (re.IGNORECASE on a literal)
StartsAtIgnoreCase(s, i, sub) ==
    /\ i + Len(sub) - 1 <= Len(s)
    /\ \A k \in 1..Len(sub) : LowerOf[s[i + k - 1]] = LowerOf[sub[k]]

\* sub in s
Contains(s, sub) == \E i \in 1..(Len(s) - Len(sub) + 1) : StartsAt(s, i, sub)

\* s.replace(old, new), old not empty: every non-overlapping occurrence,
\* left to right
RECURSIVE ReplaceFrom(_, _, _, _)
ReplaceFrom(s, old, new, i) ==
    IF i > Len(s) THEN <<>>
    ELSE IF StartsAt(s, i, old)
         THEN new \o ReplaceFrom(s, old, new, i + Len(old))
         ELSE <<s[i]>> \o ReplaceFrom(s, old, new, i + 1)

Replace(s, old, new) == ReplaceFrom(s, old, new, 1)

\* s.strip()
Strip(s) ==
    LET keep == {i \in 1..Len(s) : ~IsSpace(s[i])}
    IN  IF keep = {} THEN <<>>
        ELSE SubSeq(s, CHOOSE i \in keep : \A j \in keep : i <= j,
                       CHOOSE i \in keep : \A j \in keep : j <= i)

\* first index >= i that holds no whitespace / holds whitespace, Len(s)+1 if none
RECURSIVE SkipSpaces(_, _)
SkipSpaces(s, i) ==
    IF i <= Len(s) /\ IsSpace(s[i]) THEN SkipSpaces(s, i + 1) ELSE i

RECURSIVE SkipWord(_, _)
SkipWord(s, i) ==
    IF i <= Len(s) /\ ~IsSpace(s[i]) THEN SkipWord(s, i + 1) ELSE i

RECURSIVE SkipDigits(_, _)
SkipDigits(s, i) ==
    IF i <= Len(s) /\ IsDigit(s[i]) THEN SkipDigits(s, i + 1) ELSE i

\* s.split(): the whitespace-delimited words, none of them empty
RECURSIVE SplitFrom(_, _)
SplitFrom(s, i) ==
    LET a == SkipSpaces(s, i)
    IN  IF a > Len(s) THEN <<>>
        ELSE <<SubSeq(s, a, SkipWord(s, a) - 1)>> \o SplitFrom(s, SkipWord(s, a))

Split(s) == SplitFrom(s, 1)

\* a < b for str: lexicographic by code point, case-sensitive
RECURSIVE StrLess(_, _)
StrLess(a, b) ==
    IF b = <<>> THEN FALSE
    ELSE IF a = <<>> THEN TRUE
    ELSE IF a[1] = b[1] THEN StrLess(Tail(a), Tail(b))
    ELSE Ord[a[1]] < Ord[b[1]]

----------------------------------------------------------------------------
(* Regular expressions of parse_drug_name_comprehensive                    *)

\* re.search(r'\[([^\]]+)\]', s): the span <<start, stop>> of the leftmost
\* match, <<0, 0>> when there is none.  '[' , one or more characters other
\* than ']', then ']': the match starts at the first '[' that is not
\* directly followed by ']' and has a ']' after it, and stops at that ']'.
BracketStops(s, i) == {j \in (i + 2)..Len(s) : s[j] = "]"}

BracketStarts(s) ==
    {i \in 1..Len(s) : /\ s[i] = "["
                       /\ i + 1 <= Len(s)
                       /\ s[i + 1] # "]"
                       /\ BracketStops(s, i) # {}}

brand_match(s) ==
    IF BracketStarts(s) = {} THEN <<0, 0>>
    ELSE LET i == CHOOSE x \in BracketStarts(s) : \A y \in BracketStarts(s) : x <= y
         IN  <<i, CHOOSE x \in BracketStops(s, i) : \A y \in BracketStops(s, i) : x <= y>>

\* The quantity patterns r'(\d+(?:\.\d+)?\s*UNIT)' matched at index i with
\* re.IGNORECASE: the index of the last character of the match, 0 when the
\* pattern does not match at i.  Each greedy part is followed by something
\* it cannot itself match, so backtracking never finds another match.
QuantityStop(s, i, unit) ==
    LET d1 == SkipDigits(s, i)
        d2 == IF /\ d1 > i
                 /\ d1 <= Len(s)
                 /\ s[d1] = "."
                 /\ SkipDigits(s, d1 + 1) > d1 + 1
              THEN SkipDigits(s, d1 + 1)
              ELSE d1
        sp == SkipSpaces(s, d2)
    IN  IF d1 > i /\ StartsAtIgnoreCase(s, sp, unit) THEN sp + Len(unit) - 1 ELSE 0

\* re.search(pattern, s, re.IGNORECASE).group(1) for the pattern of `unit`:
\* the leftmost match, '' (never a match) when there is none
RECURSIVE QuantitySearchFrom(_, _, _)
QuantitySearchFrom(s, i, unit) ==
    IF i > Len(s) THEN <<>>
    ELSE LET stop == QuantityStop(s, i, unit)
         IN  IF stop > 0 THEN SubSeq(s, i, stop)
             ELSE QuantitySearchFrom(s, i + 1, unit)

QuantitySearch(s, unit) == QuantitySearchFrom(s, 1, unit)

\* re.match(r'^\d+(\.\d+)?$', word)
IsNumber(word) ==
    LET d1 == SkipDigits(word, 1)
    IN  /\ d1 > 1
        /\ \/ d1 = Len(word) + 1
           \/ /\ d1 <= Len(word)
              /\ word[d1] = "."
              /\ SkipDigits(word, d1 + 1) > d1 + 1
              /\ SkipDigits(word, d1 + 1) = Len(word) + 1

----------------------------------------------------------------------------
(* parse_drug_name_comprehensive                                           *)

known_brands == <<<<"A", "d", "v", "i", "l">>, <<"T", "y", "l", "e", "n", "o", "l">>, <<"M", "o", "t", "r", "i", "n">>, <<"A", "l", "e", "v", "e">>, <<"B", "a", "y", "e", "r">>,
                  <<"E", "x", "c", "e", "d", "r", "i", "n">>, <<"C", "y", "m", "b", "a", "l", "t", "a">>, <<"L", "i", "p", "i", "t", "o", "r">>, <<"P", "r", "o", "z", "a", "c">>,
                  <<"Z", "o", "l", "o", "f", "t">>, <<"N", "e", "x", "i", "u", "m">>>>

InList(x, list) == \E i \in 1..Len(list) : list[i] = x

\* list[i] of Python, counted from 1: IndexError when there is no such item
IndexError == <<"IndexError">>

ListItem(list, i) == IF i \in 1..Len(list) THEN list[i] ELSE IndexError

\* line 72 without its length test
first_word_unguarded(s) == ListItem(Split(s), 1)

\* line 72: drug_name.split()[0] if drug_name.split() else ''
first_word(s) == IF Split(s) # <<>> THEN ListItem(Split(s), 1) ELSE <<>>

\* lines 65-76 with the two tests in the other order: a known first word
\* wins over the brackets
BrandNameKnownFirst(s) ==
    LET m == brand_match(s)
    IN  IF InList(first_word(s), known_brands) THEN first_word(s)
        ELSE IF m[1] > 0 THEN SubSeq(s, m[1] + 1, m[2] - 1) ELSE <<>>

\* lines 65-76: brand name in square brackets, else a known first word
BrandName(s) ==
    LET m == brand_match(s)
    IN  IF m[1] > 0 THEN SubSeq(s, m[1] + 1, m[2] - 1)
        ELSE IF InList(first_word(s), known_brands) THEN first_word(s) ELSE <<>>

\* lines 66-70: the working text
WorkingText(s) ==
    LET m == brand_match(s)
    IN  IF m[1] > 0 THEN Strip(Replace(s, SubSeq(s, m[1], m[2]), <<>>)) ELSE s

\* lines 79-82
Volume(w) == Lower(QuantitySearch(w, <<"M", "L">>))

\* lines 85-92 with the plain mg pattern listed before mg/ml
strength_patterns_mg_first ==
    <<<<"M", "G">>, <<"M", "G", "/", "M", "L">>, <<"M", "C", "G", "/", "M", "L">>, <<"M", "C", "G">>, <<"%">>, <<"U", "N", "I", "T">>>>

\* lines 85-92, the units of the patterns in the order of the list
strength_patterns == <<<<"M", "G", "/", "M", "L">>, <<"M", "C", "G", "/", "M", "L">>, <<"M", "G">>, <<"M", "C", "G">>, <<"%">>, <<"U", "N", "I", "T">>>>

\* lines 97-106: the matched text formatted
FormatStrength(strength_text) ==
    IF Contains(Lower(strength_text), <<"m", "g", "/", "m", "l">>)
    THEN Replace(Lower(strength_text), <<"m", "g", "/", "m", "l">>, <<" ", "m", "g", "/", "m", "l">>)
    ELSE IF Contains(Lower(strength_text), <<"m", "c", "g", "/", "m", "l">>)
    THEN Replace(Lower(strength_text), <<"m", "c", "g", "/", "m", "l">>, <<" ", "m", "c", "g", "/", "m", "l">>)
    ELSE IF Contains(Lower(strength_text), <<"m", "g">>)
    THEN Replace(Lower(strength_text), <<"m", "g">>, <<" ", "m", "g">>)
    ELSE Lower(strength_text)

\* lines 94-107: the loop over the patterns from the k-th on, left at the
\* first pattern that matches
RECURSIVE StrengthFrom(_, _)
StrengthFrom(w, k) ==
    IF k > Len(strength_patterns) THEN <<>>
    ELSE LET strength_text == QuantitySearch(w, strength_patterns[k])
         IN  IF strength_text # <<>> THEN FormatStrength(strength_text)
             ELSE StrengthFrom(w, k + 1)

Strength(w) == StrengthFrom(w, 1)

\* lines 110-136: the dict in insertion order, key |-> (route, dose_form)
dose_form_mappings == <<
    <<<<"o", "r", "a", "l", " ", "t", "a", "b", "l", "e", "t">>, <<"O", "r", "a", "l">>, <<"T", "a", "b", "l", "e", "t">>>>,
    <<<<"t", "a", "b", "l", "e", "t">>, <<"O", "r", "a", "l">>, <<"T", "a", "b", "l", "e", "t">>>>,
    <<<<"o", "r", "a", "l", " ", "c", "a", "p", "s", "u", "l", "e">>, <<"O", "r", "a", "l">>, <<"C", "a", "p", "s", "u", "l", "e">>>>,
    <<<<"c", "a", "p", "s", "u", "l", "e">>, <<"O", "r", "a", "l">>, <<"C", "a", "p", "s", "u", "l", "e">>>>,
    <<<<"c", "h", "e", "w", "a", "b", "l", "e", " ", "t", "a", "b", "l", "e", "t">>, <<"O", "r", "a", "l">>, <<"C", "h", "e", "w", "a", "b", "l", "e", " ", "T", "a", "b", "l", "e", "t">>>>,
    <<<<"o", "r", "a", "l", " ", "s", "u", "s", "p", "e", "n", "s", "i", "o", "n">>, <<"O", "r", "a", "l">>, <<"S", "u", "s", "p", "e", "n", "s", "i", "o", "n">>>>,
    <<<<"s", "u", "s", "p", "e", "n", "s", "i", "o", "n">>, <<"O", "r", "a", "l">>, <<"S", "u", "s", "p", "e", "n", "s", "i", "o", "n">>>>,
    <<<<"o", "r", "a", "l", " ", "s", "o", "l", "u", "t", "i", "o", "n">>, <<"O", "r", "a", "l">>, <<"S", "o", "l", "u", "t", "i", "o", "n">>>>,
    <<<<"s", "o", "l", "u", "t", "i", "o", "n">>, <<"O", "r", "a", "l">>, <<"S", "o", "l", "u", "t", "i", "o", "n">>>>,
    <<<<"i", "n", "j", "e", "c", "t", "i", "o", "n">>, <<"I", "n", "j", "e", "c", "t", "a", "b", "l", "e">>, <<"I", "n", "j", "e", "c", "t", "i", "o", "n">>>>,
    <<<<"p", "r", "e", "f", "i", "l", "l", "e", "d", " ", "s", "y", "r", "i", "n", "g", "e">>, <<"I", "n", "j", "e", "c", "t", "a", "b", "l", "e">>, <<"P", "r", "e", "f", "i", "l", "l", "e", "d", " ", "S", "y", "r", "i", "n", "g", "e">>>>,
    <<<<"t", "o", "p", "i", "c", "a", "l", " ", "c", "r", "e", "a", "m">>, <<"T", "o", "p", "i", "c", "a", "l">>, <<"C", "r", "e", "a", "m">>>>,
    <<<<"c", "r", "e", "a", "m">>, <<"T", "o", "p", "i", "c", "a", "l">>, <<"C", "r", "e", "a", "m">>>>,
    <<<<"t", "o", "p", "i", "c", "a", "l", " ", "g", "e", "l">>, <<"T", "o", "p", "i", "c", "a", "l">>, <<"G", "e", "l">>>>,
    <<<<"g", "e", "l">>, <<"T", "o", "p", "i", "c", "a", "l">>, <<"G", "e", "l">>>>,
    <<<<"o", "i", "n", "t", "m", "e", "n", "t">>, <<"T", "o", "p", "i", "c", "a", "l">>, <<"O", "i", "n", "t", "m", "e", "n", "t">>>>,
    <<<<"e", "y", "e", " ", "d", "r", "o", "p", "s">>, <<"O", "p", "h", "t", "h", "a", "l", "m", "i", "c">>, <<"D", "r", "o", "p", "s">>>>,
    <<<<"d", "r", "o", "p", "s">>, <<"O", "p", "h", "t", "h", "a", "l", "m", "i", "c">>, <<"D", "r", "o", "p", "s">>>>,
    <<<<"n", "a", "s", "a", "l", " ", "s", "p", "r", "a", "y">>, <<"N", "a", "s", "a", "l">>, <<"S", "p", "r", "a", "y">>>>,
    <<<<"s", "p", "r", "a", "y">>, <<"N", "a", "s", "a", "l">>, <<"S", "p", "r", "a", "y">>>>,
    <<<<"t", "r", "a", "n", "s", "d", "e", "r", "m", "a", "l", " ", "p", "a", "t", "c", "h">>, <<"T", "r", "a", "n", "s", "d", "e", "r", "m", "a", "l">>, <<"P", "a", "t", "c", "h">>>>,
    <<<<"p", "a", "t", "c", "h">>, <<"T", "r", "a", "n", "s", "d", "e", "r", "m", "a", "l">>, <<"P", "a", "t", "c", "h">>>>,
    <<<<"s", "u", "p", "p", "o", "s", "i", "t", "o", "r", "y">>, <<"R", "e", "c", "t", "a", "l">>, <<"S", "u", "p", "p", "o", "s", "i", "t", "o", "r", "y">>>>,
    <<<<"i", "n", "h", "a", "l", "e", "r">>, <<"I", "n", "h", "a", "l", "a", "t", "i", "o", "n">>, <<"I", "n", "h", "a", "l", "e", "r">>>>,
    <<<<"i", "n", "h", "a", "l", "a", "t", "i", "o", "n">>, <<"I", "n", "h", "a", "l", "a", "t", "i", "o", "n">>, <<"I", "n", "h", "a", "l", "e", "r">>>> >>

\* lines 139-144: index of the first key of the dict found in the lowered
\* working text, 0 when none is
RECURSIVE DoseFormFrom(_, _)
DoseFormFrom(drug_lower, k) ==
    IF k > Len(dose_form_mappings) THEN 0
    ELSE IF Contains(drug_lower, dose_form_mappings[k][1]) THEN k
    ELSE DoseFormFrom(drug_lower, k + 1)

DoseFormIndex(w) == DoseFormFrom(Lower(w), 1)

\* lines 159-160
unit_words == <<<<"M", "G">>, <<"M", "L">>, <<"M", "C", "G">>, <<"%">>, <<"U", "N", "I", "T">>>>
skip_next_words == <<<<"M", "G">>, <<"M", "L">>, <<"M", "C", "G">>>>

\* line 164
dose_form_words == <<<<"o", "r", "a", "l">>, <<"t", "a", "b", "l", "e", "t">>, <<"c", "a", "p", "s", "u", "l", "e">>, <<"i", "n", "j", "e", "c", "t", "i", "o", "n">>,
                     <<"s", "u", "s", "p", "e", "n", "s", "i", "o", "n">>, <<"s", "o", "l", "u", "t", "i", "o", "n">>, <<"c", "h", "e", "w", "a", "b", "l", "e">>>>

\* lines 153-167: the loop over words from the i-th on
RECURSIVE FilterWords(_, _, _)
FilterWords(words, i, skip_next) ==
    IF i > Len(words) THEN <<>>
    ELSE IF skip_next THEN FilterWords(words, i + 1, FALSE)
    ELSE IF IsNumber(words[i]) \/ InList(Upper(words[i]), unit_words)
         THEN FilterWords(words, i + 1, InList(Upper(words[i]), skip_next_words))
    ELSE IF InList(Lower(words[i]), dose_form_words) THEN <<>>
    ELSE <<words[i]>> \o FilterWords(words, i + 1, FALSE)

filtered_words(w) == FilterWords(Split(w), 1, FALSE)

\* lines 169-174
Ingredient(w) ==
    LET fw == filtered_words(w)
    IN  IF fw = <<>> THEN <<>>
        ELSE IF Len(fw) >= 2 /\ Len(fw[2]) > 3 THEN fw[1] \o <<" ">> \o fw[2]
        ELSE fw[1]

\* lines 177-188
DisplayName(ingredient, brand_name, route) ==
    IF ingredient = <<>> THEN <<>>
    ELSE LET base_name ==
                 IF Lower(ingredient) = <<"i", "b", "u", "p", "r", "o", "f", "e", "n">> /\ brand_name # <<>>
                 THEN brand_name
                 ELSE IF Contains(Lower(ingredient), <<"d", "e", "x", "a", "m", "e", "t", "h", "a", "s", "o", "n", "e">>)
                 THEN <<"d", "e", "x", "A", "M", "E", "T", "H", "a", "s", "o", "n", "e">>
                 ELSE ingredient
         IN  IF route # <<>> THEN base_name \o <<" ", "(">> \o route \o <<")">>
             ELSE base_name

\* lines 51-59
EmptyResult == [ingredient |-> <<>>, brand_name |-> <<>>, strength |-> <<>>,
                dose_form |-> <<>>, route |-> <<>>, display_name |-> <<>>,
                volume |-> <<>>]

\* lines 78-188, given the working text w of lines 65-70
ParseWorkingText(s, w) ==
    LET k == DoseFormIndex(w)
        route == IF k = 0 THEN <<>> ELSE dose_form_mappings[k][2]
        dose_form == IF k = 0 THEN <<>> ELSE dose_form_mappings[k][3]
        ingredient == Ingredient(w)
        brand_name == BrandName(s)
    IN  [ingredient |-> ingredient,
         brand_name |-> brand_name,
         strength |-> Strength(w),
         dose_form |-> dose_form,
         route |-> route,
         display_name |-> DisplayName(ingredient, brand_name, route),
         volume |-> Volume(w)]

\* the call raises: the subscript of line 72 is the only one taken of a list
\* that may be empty (lines 169-174 test filtered_words before they index it)
Raises(s) == s # <<>> /\ brand_match(s)[1] = 0 /\ first_word(s) = IndexError

\* lines 61-62: '' returns the initial dict
parse_drug_name_comprehensive(s) ==
    IF s = <<>> THEN EmptyResult ELSE ParseWorkingText(s, WorkingText(s))

----------------------------------------------------------------------------
(* Labels given to the parser: up to MaxFrags fragments, concatenated      *)

MaxFrags == 3

Fragments == {<<" ">>, <<"A", "d", "v", "i", "l">>, <<"a", "d", "v", "i", "l">>, <<"2", "0", "0">>, <<"1", ".", "5">>, <<"M", "G">>, <<"m", "c", "g">>,
              <<"/", "M", "L">>, <<"%">>, <<"U", "N", "I", "T">>, <<"[">>, <<"]">>, <<"[", "B", "a", "y", "e", "r", "]">>,
              <<"O", "r", "a", "l">>, <<"T", "a", "b", "l", "e", "t">>, <<"C", "h", "e", "w", "a", "b", "l", "e">>}

RECURSIVE LabelsUpTo(_)
LabelsUpTo(n) ==
    IF n = 0 THEN {<<>>}
    ELSE LabelsUpTo(n - 1) \cup {l \o f : l \in LabelsUpTo(n - 1), f \in Fragments}

\* lines 495-499: the label of the application's own example search, and a
\* label with words after its dose form
ExampleLabels == {<<"d", "e", "x", "a", "m", "e", "t", "h", "a", "s", "o", "n", "e", " ", "1", "0", "3", ".", "4", " ", "M", "G", "/", "M", "L", " ", "I", "n", "j", "e", "c", "t", "i", "o", "n">>,
                  <<"a", "s", "p", "i", "r", "i", "n", " ", "8", "1", " ", "M", "G", " ", "T", "a", "b", "l", "e", "t", " ", "C", "o", "a", "t", "e", "d">>}

Labels == LabelsUpTo(MaxFrags) \cup ExampleLabels

ParseInit ==
    /\ pc = "call"
    /\ drug_name \in Labels
    /\ drug_name_no_brand = <<>>
    /\ result = EmptyResult
    /\ concepts = <<>>
    /\ parsed_info = Unbound
    /\ synonym_info = Unbound
    /\ drugs_data = <<>>
    /\ df = <<>>

\* One call of parse_drug_name_comprehensive(drug_name), lines 46-190
Parse ==
    /\ pc = "call"
    /\ IF Raises(drug_name)
       THEN /\ pc' = "raised"
            /\ UNCHANGED <<drug_name_no_brand, result>>
       ELSE /\ pc' = "returned"
            /\ LET w == IF drug_name = <<>> THEN <<>> ELSE WorkingText(drug_name)
               IN  /\ drug_name_no_brand' = w
                   /\ result' = IF drug_name = <<>> THEN EmptyResult
                                 ELSE ParseWorkingText(drug_name, w)
    /\ UNCHANGED <<drug_name, concepts, parsed_info, synonym_info, drugs_data, df>>

ParseNext == Parse

ParseSpec == ParseInit /\ [][ParseNext]_vars

----------------------------------------------------------------------------
(* search_rxnorm_api                                                       *)

MaxConcepts == 3

\* lines 235-237: concept.get('rxcui', ''), concept.get('n', ''),
\* concept.get('synonym', '')
RxcuiValues == {<<"7">>, <<"8">>, <<"x">>}
NameValues == {<<>>, <<"A", "d", "v", "i", "l">>, <<"a">>}
SynonymValues == {<<>>, <<"[", "B", "a", "y", "e", "r", "]">>, <<"a">>}

\* the pairs <<name, synonym>> a concept of the response carries: neither;
\* the synonym alone; a branded name with a branded or a plain synonym; a
\* plain name alone or with itself as its synonym
NameSynonymValues == {<<<<>>, <<>>>>, <<<<>>, <<"[", "B", "a", "y", "e", "r", "]">>>>,
                      <<<<"A", "d", "v", "i", "l">>, <<"[", "B", "a", "y", "e", "r", "]">>>>, <<<<"A", "d", "v", "i", "l">>, <<"a">>>>,
                      <<<<"a">>, <<>>>>, <<<<"a">>, <<"a">>>>}

Concepts == {c \in [rxcui : RxcuiValues, name : NameValues, synonym : SynonymValues] :
                <<c.name, c.synonym>> \in NameSynonymValues}

\* the rxcui of a row whose concept had no digit string: None (NaN in the frame)
NoRxcui == -1

\* str.isdigit()
IsDigitStr(s) == s # <<>> /\ \A i \in 1..Len(s) : IsDigit(s[i])

DigitValue(c) == CHOOSE d \in 0..9 : DigitChars[d + 1] = c

\* int(s) of a digit string
RECURSIVE StrToInt(_)
StrToInt(s) ==
    IF s = <<>> THEN 0
    ELSE 10 * StrToInt(SubSeq(s, 1, Len(s) - 1)) + DigitValue(s[Len(s)])

\* line 288
Rxcui(rxcui) == IF rxcui # <<>> /\ IsDigitStr(rxcui) THEN StrToInt(rxcui) ELSE NoRxcui

\* line 242 without the fall back to the synonym
PrimaryNameNoFallback(c) == c.name

\* line 242
PrimaryName(c) == IF c.name # <<>> THEN c.name ELSE c.synonym

\* line 250: the dict {}
EmptyDict == <<>>

\* dict.get(key) of a dict of the parser or of {}: None (here <<>>, as in
\* the dict of the parser) when the key is missing
Get(dict, key) == IF dict = EmptyDict THEN <<>> ELSE dict[key]

\* lines 250-252: {} when the synonym is not parsed
SynonymInfo(c) ==
    IF c.synonym # <<>> /\ c.synonym # c.name
    THEN parse_drug_name_comprehensive(c.synonym)
    ELSE EmptyDict

\* lines 255-259
ResolveBrandName(syn_info, prim_info) ==
    IF Get(syn_info, "brand_name") # <<>> THEN Get(syn_info, "brand_name")
    ELSE IF Get(prim_info, "brand_name") # <<>> THEN Get(prim_info, "brand_name")
    ELSE None

\* lines 262-267
ResolveDisplayName(info) ==
    IF info.display_name = <<>> /\ info.ingredient # <<>>
    THEN IF info.route # <<>>
         THEN info.ingredient \o <<" ", "(">> \o info.route \o <<")">>
         ELSE info.ingredient
    ELSE info.display_name

\* lines 270-275
RxtermsDoseForm(info) ==
    IF info.dose_form # <<>>
    THEN IF info.volume # <<>>
         THEN info.dose_form \o <<" ">> \o info.volume
         ELSE info.dose_form
    ELSE None

\* lines 246-292: the row of one concept.  termType, suppress and
\* genericRxcui are copied or constant columns that nothing below reads.
DrugInfo(c) ==
    LET info == parse_drug_name_comprehensive(PrimaryName(c))
    IN  [brandName |-> ResolveBrandName(SynonymInfo(c), info),
         displayName |-> ResolveDisplayName(info),
         synonym |-> IF c.synonym # <<>> /\ c.synonym # c.name THEN c.synonym ELSE None,
         fullName |-> PrimaryName(c),
         fullGenericName |-> IF c.name # <<>> THEN c.name ELSE PrimaryName(c),
         strength |-> info.strength,
         rxtermsDoseForm |-> RxtermsDoseForm(info),
         route |-> info.route,
         rxcui |-> Rxcui(c.rxcui),
         rxnormDoseForm |-> info.dose_form]

\* line 315: df.sort_values('displayName'): the orders sort_values may leave
\* the rows in.  Every displayName is a str, so none is NaN; the default
\* kind, quicksort, is not a stable sort, so rows of equal displayName come
\* in any order.
RECURSIVE OrdersOf(_, _)
OrdersOf(rows, left) ==
    IF left = {} THEN {<<>>}
    ELSE UNION {{<<i>> \o rest : rest \in OrdersOf(rows, left \ {i})} :
                i \in {x \in left : \A y \in left :
                          ~StrLess(rows[y].displayName, rows[x].displayName)}}

\* line 315 with the sorted frame thrown away: the rows stay as they were
UnsortedOrder(rows) == {[i \in 1..Len(rows) |-> i]}

SortedOrders(rows) == OrdersOf(rows, 1..Len(rows))

\* line 318: df.drop_duplicates(subset=['rxcui'], keep='first'); None (NaN)
\* is a duplicate of None
RECURSIVE DropDuplicatesFrom(_, _)
DropDuplicatesFrom(rows, i) ==
    IF i > Len(rows) THEN <<>>
    ELSE IF \E j \in 1..(i - 1) : rows[j].rxcui = rows[i].rxcui
         THEN DropDuplicatesFrom(rows, i + 1)
         ELSE <<rows[i]>> \o DropDuplicatesFrom(rows, i + 1)

\* line 318 comparing each row with the row before it only
RECURSIVE DropAdjacentFrom(_, _)
DropAdjacentFrom(rows, i) ==
    IF i > Len(rows) THEN <<>>
    ELSE IF i > 1 /\ rows[i - 1].rxcui = rows[i].rxcui
         THEN DropAdjacentFrom(rows, i + 1)
         ELSE <<rows[i]>> \o DropAdjacentFrom(rows, i + 1)

DropDuplicatesAdjacent(rows) == DropAdjacentFrom(rows, 1)

DropDuplicates(rows) == DropDuplicatesFrom(rows, 1)

Init ==
    /\ pc = "request"
    /\ drug_name = <<>>
    /\ drug_name_no_brand = <<>>
    /\ result = EmptyResult
    /\ concepts = <<>>
    /\ parsed_info = Unbound
    /\ synonym_info = Unbound
    /\ drugs_data = <<>>
    /\ df = <<>>

\* lines 207-216: the response arrived and was decoded
Respond ==
    /\ pc = "request"
    /\ pc' = "loop"
    /\ UNCHANGED <<drug_name, drug_name_no_brand, result, concepts, parsed_info,
                   synonym_info, drugs_data, df>>

\* lines 198-199, 329-337: a short search term or a failed request gives
\* an empty frame
RequestFailed ==
    /\ pc = "request"
    /\ pc' = "done"
    /\ df' = <<>>
    /\ UNCHANGED <<drug_name, drug_name_no_brand, result, concepts, parsed_info,
                   synonym_info, drugs_data>>

\* lines 233-294: one turn of the loop over the concepts
ProcessConcept(c) ==
    /\ pc = "loop"
    /\ Len(concepts) < MaxConcepts
    /\ concepts' = Append(concepts, c)
    /\ IF PrimaryName(c) = <<>>
       THEN UNCHANGED <<parsed_info, synonym_info, drugs_data>>
       ELSE /\ parsed_info' = parse_drug_name_comprehensive(PrimaryName(c))
            /\ synonym_info' = SynonymInfo(c)
            /\ drugs_data' = Append(drugs_data, DrugInfo(c))
    /\ UNCHANGED <<pc, drug_name, drug_name_no_brand, result, df>>

\* lines 296-327: the loop is over; sort, drop the duplicates, return
Return ==
    /\ pc = "loop"
    /\ pc' = "done"
    /\ \E p \in SortedOrders(drugs_data) :
          df' = DropDuplicates([i \in 1..Len(drugs_data) |-> drugs_data[p[i]]])
    /\ UNCHANGED <<drug_name, drug_name_no_brand, result, concepts, parsed_info,
                   synonym_info, drugs_data>>

Next ==
    \/ Respond
    \/ RequestFailed
    \/ \E c \in Concepts : ProcessConcept(c)
    \/ Return

Spec == Init /\ [][Next]_vars

----------------------------------------------------------------------------
(* Properties of the aggregation, checked under Spec                       *)

\* the place in rows of the first row that carries rxcui r
FirstWithRxcui(rows, r) ==
    CHOOSE j \in 1..Len(rows) :
        rows[j].rxcui = r /\ \A k \in 1..(j - 1) : rows[k].rxcui # r

\* C1: of the records that share a conceptId, the returned table holds the
\* one that comes first in the input sequence, whatever the other fields of
\* the later ones are.
C1_FirstSeenRetained ==
    pc = "done" =>
        \A i \in 1..Len(df) :
            df[i].rxcui # NoRxcui =>
                df[i] = drugs_data[FirstWithRxcui(drugs_data, df[i].rxcui)]

\* C2: no two rows of the returned table share an rxcui.
C2_NoSharedRxcui ==
    pc = "done" =>
        \A i, j \in 1..Len(df) : i # j => df[i].rxcui # df[j].rxcui

\* three rows were collected, two of them with one rxcui, and two returned
C2_Witness ==
    /\ pc = "done"
    /\ Len(drugs_data) = 3
    /\ Len(df) = 2
    /\ \E i, j \in 1..3 : i # j /\ drugs_data[i].rxcui = drugs_data[j].rxcui
    /\ \A i \in 1..2 : df[i].rxcui # NoRxcui

\* a <= b by code point: a is a prefix of b, or at the first place where
\* they differ a holds the lesser character
CodePointLeq(a, b) ==
    \/ Len(a) <= Len(b) /\ \A k \in 1..Len(a) : a[k] = b[k]
    \/ \E k \in 1..Len(a) :
           /\ k <= Len(b)
           /\ \A h \in 1..(k - 1) : a[h] = b[h]
           /\ Ord[a[k]] < Ord[b[k]]

\* C3: the returned table is in ascending order of displayName, compared
\* case-sensitively character by character: each row's displayName is at
\* most that of the row after it.
C3_SortedByDisplayName ==
    pc = "done" =>
        \A i \in 1..(Len(df) - 1) :
            CodePointLeq(df[i].displayName, df[i + 1].displayName)

\* three rows of three displayNames came back, collected in another order;
\* an upper-case initial comes before a lower-case one
C3_Witness ==
    /\ pc = "done"
    /\ Len(df) = 3
    /\ df[1].displayName # df[2].displayName
    /\ df[2].displayName = <<"A", "d", "v", "i", "l">>
    /\ df[3].displayName = <<"a">>
    /\ drugs_data[1].displayName = <<"a">>

Named(cs) == SelectSeq(cs, LAMBDA c : c.name # <<>> \/ c.synonym # <<>>)

\* the rxcui column of a concept: its number when it is a digit string
ExpectedRxcui(c) ==
    IF c.rxcui # <<>> /\ \A k \in 1..Len(c.rxcui) : c.rxcui[k] \in Digits
    THEN StrToInt(c.rxcui) ELSE NoRxcui

LastGaveRow ==
    /\ concepts # <<>>
    /\ \/ concepts[Len(concepts)].name # <<>>
       \/ concepts[Len(concepts)].synonym # <<>>

\* the name that was parsed as the primary one: the name, else the synonym
PrimaryOfLast ==
    IF concepts[Len(concepts)].name # <<>> THEN concepts[Len(concepts)].name
    ELSE concepts[Len(concepts)].synonym

\* the synonym of the last concept was parsed: synonym_info is a dict of
\* the parser and no longer {}
SynonymParsed == synonym_info # EmptyDict

\* the brand name the parse of the synonym gave, <<>> when it gave none or
\* the synonym was not parsed
SynonymBrand == IF SynonymParsed THEN synonym_info.brand_name ELSE <<>>

\* the brandName of the row is the brand name of the synonym when there is
\* one, else that of the primary name when there is one, else None
BrandNamePrecedence ==
    LastGaveRow =>
        drugs_data[Len(drugs_data)].brandName =
            IF SynonymBrand # <<>> THEN SynonymBrand
            ELSE IF parsed_info.brand_name # <<>> THEN parsed_info.brand_name
            ELSE None

\* the synonym is parsed exactly when it is not empty and differs from the
\* field n of the concept
ParsedIffDiffersFromName ==
    LastGaveRow =>
        (SynonymParsed <=>
            /\ concepts[Len(concepts)].synonym # <<>>
            /\ concepts[Len(concepts)].synonym # concepts[Len(concepts)].name)

\* C11: when a concept is normalized, its synonym is parsed only if it is
\* present and distinct from the primary name, and the brandName of the
\* record is the brand name of the synonym when the synonym gave one, else
\* that of the primary name, else absent; when both parses give a brand
\* name the synonym's is taken.
C11_SynonymBrandPrecedence ==
    /\ LastGaveRow /\ SynonymParsed =>
           /\ concepts[Len(concepts)].synonym # <<>>
           /\ concepts[Len(concepts)].synonym # PrimaryOfLast
    /\ BrandNamePrecedence

\* both parses gave a brand name, not the same one, and the row carries
\* the synonym's
BothBrandsSynonymWins ==
    /\ LastGaveRow
    /\ SynonymBrand # <<>>
    /\ parsed_info.brand_name # <<>>
    /\ parsed_info.brand_name # SynonymBrand
    /\ drugs_data[Len(drugs_data)].brandName = SynonymBrand

----------------------------------------------------------------------------
(* Properties of the parser, checked under ParseSpec                       *)

\* the units in the priority order the strength is to be chosen by
PriorityUnits == <<<<"M", "G", "/", "M", "L">>, <<"M", "C", "G", "/", "M", "L">>, <<"M", "G">>, <<"M", "C", "G">>, <<"%">>, <<"U", "N", "I", "T">>>>

\* the patterns that match somewhere in text w, by their place in the order
Matching(w) ==
    {k \in 1..Len(PriorityUnits) : QuantitySearch(w, PriorityUnits[k]) # <<>>}

NotSpace(c) == c # " "

\* s without its spaces, in lower case
Squeezed(s) == SelectSeq(Lower(s), NotSpace)

\* C5: the strength is taken from the match of the first pattern, in the
\* order mg/ml, mcg/ml, mg, mcg, percent, unit, that matches anywhere in the
\* working text, whatever the case of the text; a later pattern is never
\* used once one matches, and there is no strength exactly when no pattern
\* matches.
C5_FirstPatternWins ==
    pc = "returned" =>
        LET M == Matching(drug_name_no_brand)
            first == CHOOSE k \in M : \A h \in M : k <= h
        IN  IF M = {} THEN result.strength = <<>>
            ELSE /\ result.strength # <<>>
                 /\ Squeezed(result.strength) =
                      Squeezed(QuantitySearch(drug_name_no_brand, PriorityUnits[first]))

\* the mg/ml and the plain mg pattern both match, and the strength is in
\* mg/ml
C5_Witness ==
    /\ pc = "returned"
    /\ {1, 3} \subseteq Matching(drug_name_no_brand)
    /\ Contains(result.strength, <<"m", "g", "/", "m", "l">>)

LowerUnits == {<<"m", "g", "/", "m", "l">>, <<"m", "c", "g", "/", "m", "l">>, <<"m", "g">>, <<"m", "c", "g">>, <<"%">>, <<"u", "n", "i", "t">>}

\* a number, one space, a unit in lower case
SingleSpaced(s) ==
    \E p \in 1..Len(s) :
        /\ s[p] = " "
        /\ IsNumber(SubSeq(s, 1, p - 1))
        /\ SubSeq(s, p + 1, Len(s)) \in LowerUnits

\* C6: a strength that was matched is the number, exactly one space, and
\* the unit in lower case, with or without whitespace between number and
\* unit in the label.
C6_SingleSpaceBeforeUnit ==
    pc = "returned" /\ result.strength # <<>> => SingleSpaced(result.strength)

\* the place of the first ']' after place i of s, 0 when there is none
NextClose(s, i) ==
    LET at == {j \in (i + 1)..Len(s) : s[j] = "]"}
    IN  IF at = {} THEN 0 ELSE CHOOSE x \in at : \A y \in at : x <= y

\* where the bracketed spans of s start: a '[' whose ']' comes after at
\* least one other character
Spans(s) == {i \in 1..Len(s) : s[i] = "[" /\ NextClose(s, i) > i + 1}

\* the first of them, as <<place of '[', place of ']'>>
FirstSpan(s) ==
    LET i == CHOOSE x \in Spans(s) : \A y \in Spans(s) : x <= y
    IN  <<i, NextClose(s, i)>>

\* s with every occurrence of text t taken out, from the left
RECURSIVE Without(_, _)
Without(s, t) ==
    LET at == {i \in 1..(Len(s) - Len(t) + 1) : SubSeq(s, i, i + Len(t) - 1) = t}
        i == CHOOSE x \in at : \A y \in at : x <= y
    IN  IF at = {} THEN s
        ELSE SubSeq(s, 1, i - 1) \o Without(SubSeq(s, i + Len(t), Len(s)), t)

\* s without the spaces at its two ends
RECURSIVE Trimmed(_)
Trimmed(s) ==
    IF s = <<>> THEN s
    ELSE IF Head(s) = " " THEN Trimmed(Tail(s))
    ELSE IF s[Len(s)] = " " THEN Trimmed(SubSeq(s, 1, Len(s) - 1))
    ELSE s

\* the first whitespace-delimited word of s, '' when s has none
FirstToken(s) ==
    LET at == {i \in 1..Len(s) : s[i] # " "}
        a == CHOOSE x \in at : \A y \in at : x <= y
        to == {j \in a..Len(s) : \A k \in a..j : s[k] # " "}
    IN  IF at = {} THEN <<>>
        ELSE SubSeq(s, a, CHOOSE x \in to : \A y \in to : y <= x)

\* C7: when the label has a bracketed span, brand_name is the contents of
\* the first one and the working text is the label without that span (and
\* without the spaces left at its ends), known first word or not; when it
\* has none, the working text is the label itself and brand_name is the
\* first word when that word is, letter for letter, one of known_brands,
\* and absent otherwise.
C7_BrandNameRule ==
    pc = "returned" /\ drug_name # <<>> =>
        IF Spans(drug_name) # {}
        THEN LET x == FirstSpan(drug_name)
             IN  /\ result.brand_name = SubSeq(drug_name, x[1] + 1, x[2] - 1)
                 /\ drug_name_no_brand =
                      Trimmed(Without(drug_name, SubSeq(drug_name, x[1], x[2])))
        ELSE /\ drug_name_no_brand = drug_name
             /\ result.brand_name =
                  IF \E b \in 1..Len(known_brands) : known_brands[b] = FirstToken(drug_name)
                  THEN FirstToken(drug_name) ELSE <<>>

\* a label that starts with a known brand and has a bracketed span: the
\* brand is the one in the brackets, and the span is gone from the text
C7_Witness ==
    /\ pc = "returned"
    /\ FirstToken(drug_name) = <<"A", "d", "v", "i", "l">>
    /\ result.brand_name = <<"B", "a", "y", "e", "r">>
    /\ drug_name_no_brand = <<"A", "d", "v", "i", "l">>

\* the entries of the dose form table whose key is more than one word
Phrases == {k \in 1..Len(dose_form_mappings) : Contains(dose_form_mappings[k][1], <<" ">>)}

\* C8: whenever the working text holds a phrase of several words of the
\* dose form table, route and dose_form are the ones the table gives for
\* that phrase, not those of a shorter key inside it.
C8_PhraseBeforeWord ==
    pc = "returned" =>
        \A k \in Phrases :
            Contains(Lower(drug_name_no_brand), dose_form_mappings[k][1]) =>
                /\ result.route = dose_form_mappings[k][2]
                /\ result.dose_form = dose_form_mappings[k][3]

\* s is empty or holds whitespace only
Blank(s) == \A i \in 1..Len(s) : s[i] = " "

\* C9: on an empty label and on a label of whitespace only the call does
\* not raise, and every one of the seven fields it returns is absent.
C9_BlankLabelAllAbsent ==
    Blank(drug_name) =>
        /\ pc # "raised"
        /\ pc = "returned" =>
              /\ result.ingredient = <<>>
              /\ result.brand_name = <<>>
              /\ result.strength = <<>>
              /\ result.dose_form = <<>>
              /\ result.route = <<>>
              /\ result.volume = <<>>
              /\ result.display_name = <<>>

\* the call returned on a label of three spaces
C9_Witness ==
    /\ pc = "returned"
    /\ drug_name = <<" ", " ", " ">>

\* C10: the display_name returned holds neither '[' nor ']', whatever
\* brackets the label holds.
C10_NoBracketInDisplayName ==
    pc = "returned" =>
        \A i \in 1..Len(result.display_name) :
            result.display_name[i] \notin {"[", "]"}

\* the unit keywords and the dose-form keywords of the ingredient rule,
\* compared whatever the case of the token
UnitKeywords == {<<"m", "g">>, <<"m", "l">>, <<"m", "c", "g">>, <<"%">>, <<"u", "n", "i", "t">>}

DoseFormKeywords == {<<"o", "r", "a", "l">>, <<"t", "a", "b", "l", "e", "t">>, <<"c", "a", "p", "s", "u", "l", "e">>, <<"i", "n", "j", "e", "c", "t", "i", "o", "n">>,
                     <<"s", "u", "s", "p", "e", "n", "s", "i", "o", "n">>, <<"s", "o", "l", "u", "t", "i", "o", "n">>, <<"c", "h", "e", "w", "a", "b", "l", "e">>}

\* t is a number: digits, or digits, a point and digits
PureNumeric(t) ==
    /\ t # <<>>
    /\ \A k \in 1..Len(t) : t[k] \in Digits \cup {"."}
    /\ Cardinality({k \in 1..Len(t) : t[k] = "."}) <= 1
    /\ t[1] # "."
    /\ t[Len(t)] # "."

\* the whitespace tokens of the working text
Tokens == Split(drug_name_no_brand)

\* the place of the first dose-form keyword among the tokens, one past the
\* last token when there is none
FirstDoseForm ==
    LET at == {i \in 1..Len(Tokens) : Lower(Tokens[i]) \in DoseFormKeywords}
    IN  IF at = {} THEN Len(Tokens) + 1
        ELSE CHOOSE i \in at : \A j \in at : i <= j

\* the places of the tokens the ingredient may be built from: before the
\* first dose-form keyword, neither a number nor a unit keyword
Eligible ==
    {i \in 1..(FirstDoseForm - 1) :
        ~PureNumeric(Tokens[i]) /\ Lower(Tokens[i]) \notin UnitKeywords}

\* the tokens at the places of Eligible, in their order
Accumulated ==
    SelectSeq(SubSeq(Tokens, 1, FirstDoseForm - 1),
              LAMBDA t : ~PureNumeric(t) /\ Lower(t) \notin UnitKeywords)

\* the ingredient is one eligible token, or two of them in their order
\* joined by a space
OnlyEligibleTokens ==
    pc = "returned" /\ result.ingredient # <<>> =>
        \E i \in Eligible :
            \/ result.ingredient = Tokens[i]
            \/ \E j \in Eligible :
                   i < j /\ result.ingredient = Tokens[i] \o <<" ">> \o Tokens[j]

\* the ingredient is the first accumulated token, or the first two when the
\* second is longer than 3 characters, and absent when there is none
FirstOneOrTwo ==
    pc = "returned" =>
        result.ingredient =
            IF Accumulated = <<>> THEN <<>>
            ELSE IF Len(Accumulated) >= 2 /\ Len(Accumulated[2]) > 3
                 THEN Accumulated[1] \o <<" ">> \o Accumulated[2]
                 ELSE Accumulated[1]

\* the example: "dexamethasone 103.4 MG/ML Injection" gives "dexamethasone"
ExampleIngredient ==
    pc = "returned" /\ drug_name = <<"d", "e", "x", "a", "m", "e", "t", "h", "a", "s", "o", "n", "e", " ", "1", "0", "3", ".", "4", " ", "M", "G", "/", "M", "L", " ", "I", "n", "j", "e", "c", "t", "i", "o", "n">> =>
        result.ingredient = <<"d", "e", "x", "a", "m", "e", "t", "h", "a", "s", "o", "n", "e">>

\* C12: for every label the ingredient is built only from the whitespace
\* tokens of the working text that come before the first dose-form keyword
\* token and are neither a number nor a unit keyword; no token after a
\* dose-form keyword is part of it; it is the first accumulated token, or
\* the first two when the second is longer than 3 characters; and
\* "dexamethasone 103.4 MG/ML Injection" gives "dexamethasone".
C12_IngredientFromLeadingTokens ==
    /\ OnlyEligibleTokens
    /\ FirstOneOrTwo
    /\ ExampleIngredient

====
